---------------------------- MODULE Spec2Model ----------------------------
(***************************************************************************)
(* A model of the ReShade object layer:                                    *)
(*                                                                         *)
(*   - api_object_impl (source/addon.hpp): the per-object private-data     *)
(*     table, a vector of (guid, data) entries searched linearly;          *)
(*   - vulkan device_impl: the object identity table (register_object,     *)
(*     unregister_object, get_private_data_for_object), which tags native  *)
(*     handles through the backend's private-data store, and the           *)
(*     descriptor pools (one persistent pool, a ring of transient pools),  *)
(*     the resource registry (resources, their views and their mappings)   *)
(*     and the render-pass cache (_render_pass_lookup under _mutex);       *)
(*   - ini_file (source/ini_file.cpp): the text of a value (escaping of    *)
(*     its elements on save, splitting on load) and the cached file with   *)
(*     load, save, flush_cache and load_cache against the file on disk.    *)
(*                                                                         *)
(* The components share no state.  Each has a next-state relation of       *)
(* its own and a specification of its own; Next is their disjunction.      *)
(* Assertions are modelled as in a debug build: a failing assert stops the *)
(* component (its status leaves "running" and no action is enabled).  A    *)
(* call whose behaviour the backend or the language does not define (a     *)
(* backend call on a null handle, a second delete of an object) stops it   *)
(* too, with the status "undefined": nothing is said of what follows.      *)
(***************************************************************************)
EXTENDS Integers, Sequences, FiniteSets

(***************************************************************************)
(* Bounds of the model.                                                    *)
(***************************************************************************)
NumGuids == 3      \* GUIDs used by the callers of set/get_private_data
MaxData == 2       \* private-data values are 0..MaxData (0 means "remove")
MaxHandle == 1     \* native handles are 0..MaxHandle (0 is VK_NULL_HANDLE)
MaxAllocs == 2     \* object_data records allocated by register_object in a run
MaxExternalRegs == 1  \* calls of the untyped register_object in a run
MaxSets == 3       \* descriptor sets allocated in a run
MaxAge == 4        \* rotations counted per descriptor set (the count saturates)
PersistentCapacity == 2  \* descriptor sets the persistent pool can hold
MaxResources == 2  \* resources created in a run
MaxViews == 1      \* resource views created in a run
NumThreads == 2    \* threads that look render passes up concurrently
NumBeginInfos == 3 \* structurally different begin-infos that are looked up
MaxRenderPasses == 3  \* native render-pass objects built in a run
MaxElements == 2   \* elements stored under an INI key
MaxElementLen == 2 \* characters of an element
MaxTime == 3       \* the clock runs from 1 to MaxTime (in seconds)

VARIABLES
    _private_data,   \* api_object_impl::_private_data: Seq of [data, guid]
    pd_status,       \* "running" | "destroyed" | "assert_failed"
    pd_op,           \* the last private-data call: [name, guid, data, ret]
    written,         \* history: guid -> the data last passed to set_private_data
    ever_set         \* history: the guids ever set to a non-zero value

pd_vars == <<_private_data, pd_status, pd_op, written, ever_set>>

VARIABLES
    tag,             \* the backend's private-data slot: (type, handle) -> uint64
    heap,            \* metadata pointer -> "unallocated" | "live" | "freed"
    next_alloc,      \* number of records allocated by new object_data<type>
    ext_regs,        \* number of calls of the untyped register_object
    id_status,       \* "running" | "assert_failed" | "undefined"
    id_op,           \* the last identity-table call whose outcome is observed
                     \* (a lookup, an unregister of a null handle, a failed
                     \* call): [name, type, handle, ret]; "write" for the rest
    registered,      \* history: key -> pointer last registered, 0 once unregistered
    reg_key,         \* history: record -> the key it was allocated for
    freed_by,        \* history: record -> the keys whose unregister deleted it
    overwritten,     \* history: records whose tag a register call overwrote
    cleared          \* history: records whose tag the untyped unregister cleared

id_vars == <<tag, heap, next_alloc, ext_regs, id_status, id_op,
             registered, reg_key, freed_by, overwritten, cleared>>

VARIABLES
    _transient_index,  \* device_impl::_transient_index, the ring cursor
    sets,              \* descriptor set -> [kind, pool, valid, age]; age is
                       \* history: the rotations since the set was allocated
    next_set,          \* number of descriptor sets allocated so far
    desc_op            \* the last descriptor call: [name, sets, ok]

desc_vars == <<_transient_index, sets, next_set, desc_op>>

VARIABLES
    resources,       \* resource handle -> [state, type, map]
    res_tag,         \* the backend's private-data slot of the resources' objects
    views,           \* view handle -> [state, resource, desc]
    next_res,        \* number of resources created so far
    next_view,       \* number of resource views created so far
    res_status,      \* "running" | "assert_failed"
    res_op,          \* the last registry call: [name, handle, ok, res, desc]
    view_made        \* history: view -> the arguments create_resource_view got

res_vars == <<resources, res_tag, views, next_res, next_view, res_status,
              res_op, view_made>>

VARIABLES
    _render_pass_lookup,  \* device_impl::_render_pass_lookup: hash -> entry
    readers,         \* _mutex: the threads that hold it shared
    writers,         \* _mutex: the threads that hold it exclusively
    rp_pc,           \* thread -> where it is in its lookup
    rp_req,          \* thread -> the begin-info it is looking up (0: none)
    rp_built,        \* thread -> the native object it built on a miss (0: none)
    next_pass,       \* number of native render-pass objects built so far
    rp_op,           \* the last lookup that returned: [name, info, object]
    built_for,       \* history: native object -> the begin-info it was built for
    resolved,        \* history: begin-info -> the objects lookups of it returned
    overlapped,      \* history: two lookups were ever in progress at once
    collided         \* history: a lookup missed on a hash that another
                     \* begin-info occupied in the cache

rp_vars == <<_render_pass_lookup, readers, writers, rp_pc, rp_req, rp_built,
             next_pass, rp_op, built_for, resolved, overlapped, collided>>

VARIABLES
    esc_elements,    \* the elements stored under a key (ini_file::value)
    esc_value,       \* the text save() writes after "key="
    esc_loaded,      \* the elements load() reads back from that text
    esc_pc           \* "stored" | "saved" | "loaded"

esc_vars == <<esc_elements, esc_value, esc_loaded, esc_pc>>

VARIABLES
    cached,          \* s_ini_cache holds an ini_file for the path
    _sections,       \* ini_file::_sections: <<>> or <<elements of the key>>
    _modified,       \* ini_file::_modified
    _modified_at,    \* ini_file::_modified_at (0: the epoch)
    disk,            \* the file at the path: [exists, text, mtime]
    now,             \* the clock
    ini_status,      \* "running" | "assert_failed"
    ini_op,          \* the last step: [name, ret]
    unsaved          \* history: _sections holds a modification made by the
                     \* caller that was neither written nor reloaded over

ini_vars == <<cached, _sections, _modified, _modified_at, disk, now,
              ini_status, ini_op, unsaved>>

vars == <<pd_vars, id_vars, desc_vars, res_vars, rp_vars, esc_vars, ini_vars>>

\* What an action of one component leaves alone: the other components.
pd_frame == <<id_vars, desc_vars, res_vars, rp_vars, esc_vars, ini_vars>>

id_frame == <<pd_vars, desc_vars, res_vars, rp_vars, esc_vars, ini_vars>>

desc_frame == <<pd_vars, id_vars, res_vars, rp_vars, esc_vars, ini_vars>>

res_frame == <<pd_vars, id_vars, desc_vars, rp_vars, esc_vars, ini_vars>>

rp_frame == <<pd_vars, id_vars, desc_vars, res_vars, esc_vars, ini_vars>>

esc_frame == <<pd_vars, id_vars, desc_vars, res_vars, rp_vars, ini_vars>>

ini_frame == <<pd_vars, id_vars, desc_vars, res_vars, rp_vars, esc_vars>>

(***************************************************************************)
(* api_object_impl: private data                                           *)
(***************************************************************************)

\* A GUID is 16 bytes, held in an entry as two 64-bit words (guid[2]).
GUIDS == { <<i % 2, i \div 2>> : i \in 0..(NumGuids - 1) }

DataValues == 0..MaxData

\* std::memcmp(it->guid, guid, 16) == 0, compared over 8 bytes only.
GuidEqual_FirstWordOnly(a, b) == a[1] = b[1]

\* std::memcmp(it->guid, guid, 16) == 0: both 64-bit words are equal.
GuidEqual(a, b) == a[1] = b[1] /\ a[2] = b[2]

\* The loop "for (it = begin(); it != end(); ++it) if (memcmp(...) == 0)":
\* the index of the first entry whose guid matches, 0 when the loop runs out.
RECURSIVE FindEntry(_, _, _)
FindEntry(table, guid, i) ==
    IF i > Len(table) THEN 0
    ELSE IF GuidEqual(table[i].guid, guid) THEN i
    ELSE FindEntry(table, guid, i + 1)

\* erase(begin()) in place of erase(it): the first entry is removed.
Erase_Front(table, i) ==
    [j \in 1..(Len(table) - 1) |-> table[j + 1]]

\* std::vector::erase(it)
Erase(table, i) ==
    [j \in 1..(Len(table) - 1) |-> IF j < i THEN table[j] ELSE table[j + 1]]

\* get_private_data: *data = it->data of the first match, else *data = 0.
GetPrivateData(table, guid) ==
    LET i == FindEntry(table, guid, 1)
    IN  IF i # 0 THEN table[i].data ELSE 0

\* set_private_data with the erase branch dropped: a zero is stored.
SetPrivateData_StoresZero(table, guid, data) ==
    LET i == FindEntry(table, guid, 1)
    IN  IF i # 0
        THEN [table EXCEPT ![i].data = data]
        ELSE IF data # 0
             THEN Append(table, [data |-> data, guid |-> guid])
             ELSE table

\* set_private_data: the table after the call.
SetPrivateData(table, guid, data) ==
    LET i == FindEntry(table, guid, 1)
    IN  IF i # 0
        THEN IF data # 0
             THEN [table EXCEPT ![i].data = data]
             ELSE Erase(table, i)
        ELSE IF data # 0
             THEN Append(table, [data |-> data, guid |-> guid])
             ELSE table

NoGuid == <<0, 0>>

PdInit ==
    /\ _private_data = <<>>
    /\ pd_status = "running"
    /\ pd_op = [name |-> "none", guid |-> NoGuid, data |-> 0, ret |-> 0]
    /\ written = [g \in GUIDS |-> 0]
    /\ ever_set = {}

set_private_data(guid, data) ==
    /\ pd_status = "running"
    /\ _private_data' = SetPrivateData(_private_data, guid, data)
    /\ pd_op' = [name |-> "set", guid |-> guid, data |-> data, ret |-> 0]
    /\ written' = [written EXCEPT ![guid] = data]
    /\ ever_set' = IF data # 0 THEN ever_set \cup {guid} ELSE ever_set
    /\ UNCHANGED <<pd_status, pd_frame>>

get_private_data(guid) ==
    /\ pd_status = "running"
    /\ pd_op' = [name |-> "get", guid |-> guid, data |-> 0,
                 ret |-> GetPrivateData(_private_data, guid)]
    /\ UNCHANGED <<_private_data, pd_status, written, ever_set, pd_frame>>

\* The assertion written the wrong way round: assert(!_private_data.empty()).
DestructorAssert_Inverted(table) == Len(table) # 0

\* assert(_private_data.empty())
DestructorAssertHolds(table) == Len(table) = 0

\* ~api_object_impl()
destroy_object ==
    /\ pd_status = "running"
    /\ pd_status' = IF DestructorAssertHolds(_private_data)
                    THEN "destroyed" ELSE "assert_failed"
    /\ pd_op' = [name |-> "destroy", guid |-> NoGuid, data |-> 0, ret |-> 0]
    /\ UNCHANGED <<_private_data, written, ever_set, pd_frame>>

PdNext ==
    \/ \E g \in GUIDS, d \in DataValues : set_private_data(g, d)
    \/ \E g \in GUIDS : get_private_data(g)
    \/ destroy_object

(***************************************************************************)
(* vulkan device_impl: the object identity table                           *)
(***************************************************************************)

\* VkObjectType values used as the "type" of a tag.
Types == {"IMAGE", "BUFFER"}

VK_NULL_HANDLE == 0

Handles == 0..MaxHandle

\* The native objects the backend can hold private data for.
Keys == Types \X (1..MaxHandle)

NoKey == <<"", 0>>

\* Pointers returned by new object_data<type>(...), in allocation order.
Records == 1..MaxAllocs

\* The metadata object owned by the caller that the untyped register_object
\* is given (its address differs from every record's).
ExternalPtrs == {MaxAllocs + 1}

Ptrs == Records \cup ExternalPtrs

\* _dispatch_table.GetPrivateData(_orig, type, object, _private_data_slot, &data)
VkGetPrivateData(store, type, object) == store[<<type, object>>]

\* SetPrivateData called without the object type: the tag is keyed by the
\* handle value alone.
VkSetPrivateData_IgnoresType(store, type, object, data) ==
    [k \in DOMAIN store |-> IF k[2] = object THEN data ELSE store[k]]

\* _dispatch_table.SetPrivateData(_orig, type, object, _private_data_slot, data)
VkSetPrivateData(store, type, object, data) ==
    [store EXCEPT ![<<type, object>>] = data]

\* The delete left out of unregister_object.
DeleteRecord_Skipped(h, p) == h

\* delete reinterpret_cast<object_data<type> *>(private_data): a null pointer
\* is ignored, a live object is freed.
DeleteRecord(h, p) ==
    IF p = 0 THEN h ELSE [h EXCEPT ![p] = "freed"]

\* Deleting an object that is not live (a second delete) is undefined.
DeleteIsDefined(h, p) == p = 0 \/ h[p] = "live"

IdInit ==
    /\ tag = [k \in Keys |-> 0]
    /\ heap = [p \in Ptrs |-> IF p \in ExternalPtrs THEN "live" ELSE "unallocated"]
    /\ next_alloc = 0
    /\ ext_regs = 0
    /\ id_status = "running"
    /\ id_op = [name |-> "none", type |-> "", handle |-> 0, ret |-> 0]
    /\ registered = [k \in Keys |-> 0]
    /\ reg_key = [r \in Records |-> NoKey]
    /\ freed_by = [r \in Records |-> <<>>]
    /\ overwritten = {}
    /\ cleared = {}

\* What id_op holds after a call that wrote a tag and returned nothing.
TagWritten == [name |-> "write", type |-> "", handle |-> 0, ret |-> 0]

\* The record that loses its tag when the tag of (type, object) is rewritten
\* without a delete, if any.
Dropped(type, object) ==
    LET old == VkGetPrivateData(tag, type, object)
    IN  IF old \in Records THEN {old} ELSE {}

\* A backend call on VK_NULL_HANDLE is invalid usage of the backend.
InvalidBackendCall(name, type) ==
    /\ id_status' = "undefined"
    /\ id_op' = [name |-> name, type |-> type, handle |-> VK_NULL_HANDLE,
                 ret |-> 0]
    /\ UNCHANGED <<tag, heap, next_alloc, registered, reg_key, freed_by, overwritten, cleared>>

\* template <VkObjectType type> register_object(object, args...)
register_object(type, object) ==
    /\ id_status = "running"
    /\ UNCHANGED <<ext_regs, id_frame>>
    /\ next_alloc < MaxAllocs
    /\ id_op' = IF object = VK_NULL_HANDLE
                THEN [name |-> "register", type |-> type, handle |-> object,
                      ret |-> 0]
                ELSE TagWritten
    /\ IF object = VK_NULL_HANDLE
       THEN \* assert(object != VK_NULL_HANDLE)
            /\ id_status' = "assert_failed"
            /\ UNCHANGED <<tag, heap, next_alloc, registered, reg_key,
                           freed_by, overwritten, cleared>>
       ELSE LET private_data == next_alloc + 1
            IN  /\ next_alloc' = private_data
                /\ heap' = [heap EXCEPT ![private_data] = "live"]
                /\ tag' = VkSetPrivateData(tag, type, object, private_data)
                /\ registered' = [registered EXCEPT ![<<type, object>>] = private_data]
                /\ reg_key' = [reg_key EXCEPT ![private_data] = <<type, object>>]
                /\ overwritten' = overwritten \cup Dropped(type, object)
                /\ UNCHANGED <<id_status, freed_by, cleared>>

\* register_object(VkObjectType type, uint64_t object, void *private_data)
register_object_untyped(type, object, private_data) ==
    /\ id_status = "running"
    /\ ext_regs < MaxExternalRegs
    /\ ext_regs' = ext_regs + 1
    /\ UNCHANGED id_frame
    /\ IF object = VK_NULL_HANDLE
       THEN InvalidBackendCall("register_untyped", type)
       ELSE /\ tag' = VkSetPrivateData(tag, type, object, private_data)
            /\ id_op' = TagWritten
            /\ registered' = [registered EXCEPT ![<<type, object>>] = private_data]
            /\ overwritten' = overwritten \cup Dropped(type, object)
            /\ UNCHANGED <<heap, next_alloc, id_status, reg_key, freed_by, cleared>>

\* unregister_object<type> without its "if (object == VK_NULL_HANDLE) return;".
UnregisterNull_NoEarlyReturn(type) == InvalidBackendCall("unregister", type)

\* unregister_object<type>(VK_NULL_HANDLE): "if (object == VK_NULL_HANDLE) return;"
UnregisterNull(type) ==
    /\ id_op' = [name |-> "unregister", type |-> type, handle |-> VK_NULL_HANDLE,
                 ret |-> 0]
    /\ UNCHANGED <<tag, heap, next_alloc, id_status, registered, reg_key,
                   freed_by, overwritten, cleared>>

\* template <VkObjectType type> unregister_object(object)
unregister_object(type, object) ==
    /\ id_status = "running"
    /\ UNCHANGED <<ext_regs, id_frame>>
    /\ IF object = VK_NULL_HANDLE
       THEN UnregisterNull(type)
       ELSE LET private_data == VkGetPrivateData(tag, type, object)
            IN  /\ id_op' = TagWritten
                /\ heap' = DeleteRecord(heap, private_data)
                /\ id_status' = IF DeleteIsDefined(heap, private_data)
                                THEN "running" ELSE "undefined"
                /\ tag' = VkSetPrivateData(tag, type, object, 0)
                /\ registered' = [registered EXCEPT ![<<type, object>>] = 0]
                /\ freed_by' = IF private_data \in Records
                               THEN [freed_by EXCEPT ![private_data] =
                                        Append(@, <<type, object>>)]
                               ELSE freed_by
                /\ UNCHANGED <<next_alloc, reg_key, overwritten, cleared>>

\* unregister_object(VkObjectType type, uint64_t object)
unregister_object_untyped(type, object) ==
    /\ id_status = "running"
    /\ UNCHANGED <<ext_regs, id_frame>>
    /\ IF object = VK_NULL_HANDLE
       THEN InvalidBackendCall("unregister_untyped", type)
       ELSE /\ tag' = VkSetPrivateData(tag, type, object, 0)
            /\ id_op' = TagWritten
            /\ registered' = [registered EXCEPT ![<<type, object>>] = 0]
            /\ cleared' = cleared \cup Dropped(type, object)
            /\ UNCHANGED <<heap, next_alloc, id_status, reg_key, freed_by,
                           overwritten>>

\* The two assertions of get_private_data_for_object, with the second one
\* accepting any value read from the tag.
LookupAsserts_NoTagCheck(object, private_data) == object # VK_NULL_HANDLE

\* assert(object != VK_NULL_HANDLE); ... assert(private_data != 0);
LookupAsserts(object, private_data) ==
    object # VK_NULL_HANDLE /\ private_data # 0

\* template <VkObjectType type> get_private_data_for_object(object)
get_private_data_for_object(type, object) ==
    /\ id_status = "running"
    /\ UNCHANGED <<ext_regs, id_frame>>
    /\ LET private_data == IF object = VK_NULL_HANDLE THEN 0
                           ELSE VkGetPrivateData(tag, type, object)
           ok == LookupAsserts(object, private_data)
       IN  /\ id_status' = IF ok THEN "running" ELSE "assert_failed"
           /\ id_op' = [name |-> "lookup", type |-> type, handle |-> object,
                        ret |-> IF ok THEN private_data ELSE 0]
    /\ UNCHANGED <<tag, heap, next_alloc, registered, reg_key, freed_by, overwritten, cleared>>

IdNext ==
    \/ \E t \in Types, h \in Handles : register_object(t, h)
    \/ \E t \in Types, h \in Handles, p \in ExternalPtrs :
          register_object_untyped(t, h, p)
    \/ \E t \in Types, h \in Handles : unregister_object(t, h)
    \/ \E t \in Types, h \in Handles : unregister_object_untyped(t, h)
    \/ \E t \in Types, h \in Handles : get_private_data_for_object(t, h)

(***************************************************************************)
(* vulkan device_impl: the descriptor pools.  The header declares the      *)
(* pools and the cursor; the bodies of the operations follow the design    *)
(* description of the descriptor/pool allocator.                           *)
(***************************************************************************)

\* A ring of one pool more than the four of the design.
NumTransientPools_Five == 4 + 1

\* VkDescriptorPool _transient_descriptor_pool[4]
NumTransientPools == 4

\* A cursor initialised to the second pool.
TransientIndex_StartsAtOne == 0 + 1

\* uint32_t _transient_index = 0
TransientIndexInit == 0

SetIds == 1..MaxSets

NoSet == [kind |-> "none", pool |-> 0, valid |-> FALSE, age |-> 0]

ValidSets(kind) == { d \in SetIds : sets[d].kind = kind /\ sets[d].valid }

DescInit ==
    /\ _transient_index = TransientIndexInit
    /\ sets = [d \in SetIds |-> NoSet]
    /\ next_set = 0
    /\ desc_op = [name |-> "none", sets |-> {}, ok |-> TRUE]

\* The cursor one pool further round the ring.
NextPool(index) == (index + 1) % NumTransientPools

\* A rotation that resets the persistent pool along with the transient one.
ResetPool_AlsoPersistent(all, pool) ==
    [d \in DOMAIN all |->
        IF all[d].kind = "persistent" \/ all[d].pool = pool
        THEN [all[d] EXCEPT !.valid = FALSE]
        ELSE all[d]]

\* Resetting a transient pool: every set allocated from it becomes invalid.
\* The persistent pool is not part of the ring.
ResetPool(all, pool) ==
    [d \in DOMAIN all |->
        IF all[d].kind = "transient" /\ all[d].pool = pool
        THEN [all[d] EXCEPT !.valid = FALSE]
        ELSE all[d]]

\* One more rotation in the life of every allocated set.
Aged(all) ==
    [d \in DOMAIN all |->
        IF all[d].kind = "none" \/ all[d].age = MaxAge
        THEN all[d]
        ELSE [all[d] EXCEPT !.age = @ + 1]]

\* advance_transient_descriptor_pool(): rotate the cursor to the next pool
\* and invalidate the sets allocated from the pool now being reused.
advance_transient_descriptor_pool ==
    /\ _transient_index' = NextPool(_transient_index)
    /\ sets' = Aged(ResetPool(sets, NextPool(_transient_index)))
    /\ desc_op' = [name |-> "advance", sets |-> {}, ok |-> TRUE]
    /\ UNCHANGED <<next_set, desc_frame>>

\* allocate_descriptor_sets(count, layout, layout_param, out_sets): from the
\* persistent pool; fails (PoolExhausted) when the pool cannot hold them.
allocate_descriptor_sets(count) ==
    /\ next_set + count <= MaxSets
    /\ LET new == (next_set + 1)..(next_set + count)
           ok == Cardinality(ValidSets("persistent")) + count <= PersistentCapacity
       IN  IF ok
           THEN /\ sets' = [d \in SetIds |->
                             IF d \in new
                             THEN [kind |-> "persistent", pool |-> 0,
                                   valid |-> TRUE, age |-> 0]
                             ELSE sets[d]]
                /\ next_set' = next_set + count
                /\ desc_op' = [name |-> "allocate", sets |-> new, ok |-> TRUE]
           ELSE /\ desc_op' = [name |-> "allocate", sets |-> {}, ok |-> FALSE]
                /\ UNCHANGED <<sets, next_set>>
    /\ UNCHANGED <<_transient_index, desc_frame>>

\* free_descriptor_sets(count, sets): the caller returns sets it owns.
free_descriptor_sets(freed) ==
    /\ freed # {}
    /\ freed \subseteq ValidSets("persistent")
    /\ sets' = [d \in SetIds |->
                  IF d \in freed THEN [sets[d] EXCEPT !.valid = FALSE] ELSE sets[d]]
    /\ desc_op' = [name |-> "free", sets |-> freed, ok |-> TRUE]
    /\ UNCHANGED <<_transient_index, next_set, desc_frame>>

\* A transient allocation (a command list's pushed descriptors): one set from
\* the transient pool under the cursor.
allocate_transient_descriptor_set ==
    /\ next_set < MaxSets
    /\ sets' = [sets EXCEPT ![next_set + 1] =
                  [kind |-> "transient", pool |-> _transient_index,
                   valid |-> TRUE, age |-> 0]]
    /\ next_set' = next_set + 1
    /\ desc_op' = [name |-> "allocate_transient", sets |-> {next_set + 1},
                   ok |-> TRUE]
    /\ UNCHANGED <<_transient_index, desc_frame>>

\* update_descriptor_sets, copy_descriptor_sets and get_descriptor_pool_offset
\* address the descriptor memory of valid sets (the contents of a set are not
\* part of the model); they allocate nothing and free nothing.
DescriptorAccess(name, used) ==
    /\ used \subseteq ValidSets("persistent") \cup ValidSets("transient")
    /\ desc_op' = [name |-> name, sets |-> {}, ok |-> TRUE]
    /\ UNCHANGED <<_transient_index, sets, next_set, desc_frame>>

\* update_descriptor_sets(count, updates)
update_descriptor_sets(d) == DescriptorAccess("update", {d})

\* copy_descriptor_sets(count, copies)
copy_descriptor_sets(src, dst) == DescriptorAccess("copy", {src, dst})

\* get_descriptor_pool_offset(set, binding, array_offset, out_pool, out_offset)
get_descriptor_pool_offset(d) == DescriptorAccess("lookup", {d})

DescNext ==
    \/ advance_transient_descriptor_pool
    \/ \E count \in 1..2 : allocate_descriptor_sets(count)
    \/ \E freed \in SUBSET SetIds : free_descriptor_sets(freed)
    \/ allocate_transient_descriptor_set
    \/ \E d \in SetIds : update_descriptor_sets(d)
    \/ \E src \in SetIds, dst \in SetIds : copy_descriptor_sets(src, dst)
    \/ \E d \in SetIds : get_descriptor_pool_offset(d)

(***************************************************************************)
(* vulkan device_impl: the resource / resource view registry.  The header  *)
(* declares the operations; their bodies follow the design description of  *)
(* the registry.  A resource's native object is tagged through the object  *)
(* identity table when it is created and untagged when it is destroyed.    *)
(***************************************************************************)

ResHandles == 1..MaxResources

ViewHandles == 1..MaxViews

ResKeys == Types \X ResHandles

\* api::map_access
MapAccess == {"read_only", "write_only"}

\* api::resource_usage values used as the usage type of a view.
UsageTypes == {"shader_resource", "render_target"}

\* api::resource_view_desc, reduced to the first mip level of its range.
ViewDescs == 0..1

NoDesc == 0

NoResource == [state |-> "none", type |-> "", map |-> "Unmapped"]

NoView == [state |-> "none", resource |-> 0, desc |-> NoDesc]

NoResOp == [name |-> "none", handle |-> 0, ok |-> TRUE, res |-> 0, desc |-> NoDesc]

\* What res_op holds after a call that succeeded and whose result no claim
\* observes.
ResDone == [NoResOp EXCEPT !.name = "done"]

ResInit ==
    /\ resources = [h \in ResHandles |-> NoResource]
    /\ res_tag = [k \in ResKeys |-> 0]
    /\ views = [v \in ViewHandles |-> NoView]
    /\ next_res = 0
    /\ next_view = 0
    /\ res_status = "running"
    /\ res_op = NoResOp
    /\ view_made = [v \in ViewHandles |-> NoView]

\* The views that reference the resource and have not been destroyed.
OutstandingViews(all, resource) ==
    { v \in DOMAIN all : all[v].state = "live" /\ all[v].resource = resource }

\* The type under which the object of a resource handle was tagged, found by
\* looking the handle up as each native type in turn ("" when it has no tag).
TypeOfHandle(store, handle) ==
    IF VkGetPrivateData(store, "IMAGE", handle) # 0 THEN "IMAGE"
    ELSE IF VkGetPrivateData(store, "BUFFER", handle) # 0 THEN "BUFFER"
    ELSE ""

\* The tag read back for a resource handle looked up as the given type: the
\* backend yields 0 for an object that carries no private data.
TagOf(store, type, handle) ==
    IF <<type, handle>> \in DOMAIN store
    THEN VkGetPrivateData(store, type, handle)
    ELSE 0

\* A lookup of the resource handle passed the assertions of
\* get_private_data_for_object (the "is registered" precondition).
IsRegistered(store, type, handle) ==
    LookupAsserts(handle, TagOf(store, type, handle))

\* A registry call stopped by a failed assertion: nothing else changes.
ResAssertFailed(name, handle) ==
    /\ res_status' = "assert_failed"
    /\ res_op' = [NoResOp EXCEPT !.name = name, !.handle = handle, !.ok = FALSE]
    /\ UNCHANGED <<resources, res_tag, views, next_res, next_view, view_made>>

\* A registry call that returns a failure and changes nothing.
ResFailed(name, handle) ==
    /\ res_op' = [NoResOp EXCEPT !.name = name, !.handle = handle, !.ok = FALSE]
    /\ UNCHANGED <<resources, res_tag, views, next_res, next_view, res_status,
                   view_made>>

\* create_resource(desc, initial_data, initial_state, out_handle): allocates
\* the native object and registers it; fails (AllocationError) when the
\* native allocator refuses.
create_resource(type, allocated) ==
    /\ res_status = "running"
    /\ next_res < MaxResources
    /\ UNCHANGED res_frame
    /\ IF ~allocated
       THEN ResFailed("create_resource", 0)
       ELSE LET handle == next_res + 1
            IN  /\ resources' = [resources EXCEPT ![handle] =
                      [state |-> "live", type |-> type, map |-> "Unmapped"]]
                /\ res_tag' = VkSetPrivateData(res_tag, type, handle, handle)
                /\ next_res' = handle
                /\ res_op' = ResDone
                /\ UNCHANGED <<views, next_view, res_status, view_made>>

\* The debug assertion of destroy_resource with the mapping check left out.
DestroyAsserts_IgnoresMapping(all, all_views, handle) ==
    OutstandingViews(all_views, handle) = {}

\* The debug assertion of destroy_resource with the view check left out.
DestroyAsserts_IgnoresViews(all, all_views, handle) ==
    all[handle].map = "Unmapped"

\* The contract destroy_resource asserts in a debug build: the resource is
\* not mapped and no view of it is outstanding.
DestroyAsserts(all, all_views, handle) ==
    /\ all[handle].map = "Unmapped"
    /\ OutstandingViews(all_views, handle) = {}

\* destroy_resource(handle): releases the native memory and unregisters.  The
\* caller passes the handle of a resource it created and has not destroyed.
destroy_resource(handle) ==
    /\ res_status = "running"
    /\ UNCHANGED res_frame
    /\ resources[handle].state = "live"
    /\ IF ~DestroyAsserts(resources, views, handle)
       THEN ResAssertFailed("destroy_resource", handle)
       ELSE /\ resources' = [resources EXCEPT ![handle] =
                  [state |-> "destroyed", type |-> "", map |-> "Unmapped"]]
            /\ res_tag' = VkSetPrivateData(res_tag, resources[handle].type,
                                           handle, 0)
            /\ res_op' = [NoResOp EXCEPT !.name = "destroy_resource",
                                         !.handle = handle]
            /\ UNCHANGED <<views, next_res, next_view, res_status, view_made>>

\* get_resource_desc(resource): a pure lookup.
get_resource_desc(handle) ==
    /\ res_status = "running"
    /\ UNCHANGED res_frame
    /\ LET type == TypeOfHandle(res_tag, handle)
       IN  IF ~IsRegistered(res_tag, type, handle)
           THEN ResAssertFailed("get_resource_desc", handle)
           ELSE /\ res_op' = [NoResOp EXCEPT !.name = "get_resource_desc",
                                             !.handle = handle, !.res = handle]
                /\ UNCHANGED <<resources, res_tag, views, next_res, next_view,
                               res_status, view_made>>

\* The record of a view that keeps the default description, not the one
\* supplied.
ViewRecord_DefaultDesc(resource, desc) ==
    [state |-> "live", resource |-> resource, desc |-> 0]

\* What the registry records for a view: the resource it references and its
\* description (the usage type selects the kind of native view and is not
\* read back by any lookup).
ViewRecord(resource, desc) ==
    [state |-> "live", resource |-> resource, desc |-> desc]

\* The description's range is compatible with the owning resource: a buffer
\* has a single level.
ViewCompatible(type, desc) == type = "IMAGE" \/ desc = 0

\* create_resource_view(resource, usage_type, desc, out_handle): fails
\* (ViewCreationError) when desc is incompatible with the resource.
create_resource_view(resource, usage, desc) ==
    /\ res_status = "running"
    /\ next_view < MaxViews
    /\ UNCHANGED res_frame
    /\ LET type == TypeOfHandle(res_tag, resource)
       IN  IF ~IsRegistered(res_tag, type, resource)
           THEN ResAssertFailed("create_resource_view", 0)
           ELSE IF ~ViewCompatible(type, desc)
           THEN ResFailed("create_resource_view", 0)
           ELSE LET view == next_view + 1
                IN  /\ views' = [views EXCEPT ![view] =
                                   ViewRecord(resource, desc)]
                    /\ view_made' = [view_made EXCEPT ![view] =
                          [state |-> "live", resource |-> resource,
                           desc |-> desc]]
                    /\ next_view' = view
                    /\ res_op' = [NoResOp EXCEPT !.name = "create_resource_view",
                                                 !.handle = view]
                    /\ UNCHANGED <<resources, res_tag, next_res, res_status>>

\* destroy_resource_view(handle), on a view the caller created and has not
\* destroyed.
destroy_resource_view(view) ==
    /\ res_status = "running"
    /\ UNCHANGED res_frame
    /\ views[view].state = "live"
    /\ views' = [views EXCEPT ![view] = [NoView EXCEPT !.state = "destroyed"]]
    /\ view_made' = [view_made EXCEPT ![view] = NoView]
    /\ res_op' = ResDone
    /\ UNCHANGED <<resources, res_tag, next_res, next_view, res_status>>

\* get_resource_from_view(view): a pure lookup, always succeeds for a valid
\* handle.
get_resource_from_view(view) ==
    /\ res_status = "running"
    /\ UNCHANGED res_frame
    /\ views[view].state = "live"
    /\ res_op' = [NoResOp EXCEPT !.name = "get_resource_from_view",
                                 !.handle = view,
                                 !.res = views[view].resource]
    /\ UNCHANGED <<resources, res_tag, views, next_res, next_view,
                   res_status, view_made>>

\* get_resource_view_desc(view): a pure lookup, always succeeds for a valid
\* handle.
get_resource_view_desc(view) ==
    /\ res_status = "running"
    /\ UNCHANGED res_frame
    /\ views[view].state = "live"
    /\ res_op' = [NoResOp EXCEPT !.name = "get_resource_view_desc",
                                 !.handle = view,
                                 !.desc = views[view].desc]
    /\ UNCHANGED <<resources, res_tag, views, next_res, next_view,
                   res_status, view_made>>

\* A map call that goes ahead whatever the mapping state of the resource.
MapAllowed_Always(state) == TRUE

\* A transition into a Mapped state is taken only from Unmapped.
MapAllowed(state) == state = "Unmapped"

\* The Mapped state a map call with the given access leads to.
MappedState(access) ==
    IF access = "read_only" THEN "MappedRead" ELSE "MappedWrite"

\* map_buffer_region / map_texture_region on a resource looked up as type:
\* fails if the resource is already mapped or the backend refuses.
MapRegion(name, type, resource, access, backend_ok) ==
    /\ res_status = "running"
    /\ UNCHANGED res_frame
    /\ IF ~IsRegistered(res_tag, type, resource)
       THEN ResAssertFailed(name, resource)
       ELSE IF ~MapAllowed(resources[resource].map) \/ ~backend_ok
       THEN ResFailed(name, resource)
       ELSE /\ resources' = [resources EXCEPT ![resource].map =
                                                MappedState(access)]
            /\ res_op' = [NoResOp EXCEPT !.name = name, !.handle = resource]
            /\ UNCHANGED <<res_tag, views, next_res, next_view, res_status,
                           view_made>>

\* unmap_buffer_region / unmap_texture_region: the matching release of a
\* mapping the caller established.
UnmapRegion(name, type, resource) ==
    /\ res_status = "running"
    /\ UNCHANGED res_frame
    /\ resources[resource].map # "Unmapped"
    /\ IF ~IsRegistered(res_tag, type, resource)
       THEN ResAssertFailed(name, resource)
       ELSE /\ resources' = [resources EXCEPT ![resource].map = "Unmapped"]
            /\ res_op' = [NoResOp EXCEPT !.name = name, !.handle = resource]
            /\ UNCHANGED <<res_tag, views, next_res, next_view, res_status,
                           view_made>>

\* map_buffer_region(resource, offset, size, access, out_data)
map_buffer_region(resource, access, backend_ok) ==
    MapRegion("map", "BUFFER", resource, access, backend_ok)

\* unmap_buffer_region(resource)
unmap_buffer_region(resource) == UnmapRegion("unmap", "BUFFER", resource)

\* map_texture_region(resource, subresource, box, access, out_data)
map_texture_region(resource, access, backend_ok) ==
    MapRegion("map", "IMAGE", resource, access, backend_ok)

\* unmap_texture_region(resource, subresource)
unmap_texture_region(resource) == UnmapRegion("unmap", "IMAGE", resource)

ResNext ==
    \/ \E t \in Types, allocated \in BOOLEAN : create_resource(t, allocated)
    \/ \E h \in ResHandles : destroy_resource(h)
    \/ \E h \in ResHandles : get_resource_desc(h)
    \/ \E h \in ResHandles, u \in UsageTypes, d \in ViewDescs :
          create_resource_view(h, u, d)
    \/ \E v \in ViewHandles : destroy_resource_view(v)
    \/ \E v \in ViewHandles : get_resource_from_view(v)
    \/ \E v \in ViewHandles : get_resource_view_desc(v)
    \/ \E h \in ResHandles, a \in MapAccess, ok \in BOOLEAN :
          map_buffer_region(h, a, ok)
    \/ \E h \in ResHandles : unmap_buffer_region(h)
    \/ \E h \in ResHandles, a \in MapAccess, ok \in BOOLEAN :
          map_texture_region(h, a, ok)
    \/ \E h \in ResHandles : unmap_texture_region(h)

(***************************************************************************)
(* vulkan device_impl: the render-pass cache.  The header declares the     *)
(* cache, a map from a hash to one begin-info, and the reader/writer lock  *)
(* that guards it; the lookup path follows the design description: hash    *)
(* the begin-info, search under the shared lock and accept a hit only when *)
(* the cached begin-info is structurally equal; on a miss build the native *)
(* object and insert it under the exclusive lock.                          *)
(***************************************************************************)

Threads == 1..NumThreads

BeginInfos == 1..NumBeginInfos

Passes == 1..MaxRenderPasses

\* The number of hash values the begin-infos fall into: a hash is a size_t,
\* the begin-infos are many more, so different begin-infos share hashes.
NumHashes == 2

\* The structural hash of a begin-info.
Hash(info) == info % NumHashes

HashValues == { Hash(i) : i \in BeginInfos }

\* A hit accepted on the hash alone.
StructurallyEqual_HashOnly(a, b) == Hash(a) = Hash(b)

\* The structural equality check made before a cached object is reused.
StructurallyEqual(a, b) == a = b

\* A slot of the map that holds nothing.
NoEntry == [info |-> 0, pass |-> 0]

\* std::unordered_map::find(hash): the entry filed under the hash, if any.
Find(map, hash) == map[hash]

\* Insertion into std::unordered_map<size_t, VkRenderPassBeginInfo>: the map
\* holds one entry per hash.  When the hash is taken, emplace keeps the old
\* entry and an assignment replaces it.
Insert(map, hash, entry, replace) ==
    IF map[hash] = NoEntry \/ replace
    THEN [map EXCEPT ![hash] = entry]
    ELSE map

\* std::shared_mutex::lock() granted although readers hold the mutex.
CanLockExclusive_IgnoresReaders(rd, wr) == wr = {}

\* std::shared_mutex::lock(): granted when no thread holds the mutex.
CanLockExclusive(rd, wr) == rd = {} /\ wr = {}

\* std::shared_mutex::lock_shared(): granted when no thread holds the mutex
\* exclusively.
CanLockShared(rd, wr) == wr = {}

RpInit ==
    /\ _render_pass_lookup = [h \in HashValues |-> NoEntry]
    /\ readers = {}
    /\ writers = {}
    /\ rp_pc = [t \in Threads |-> "idle"]
    /\ rp_req = [t \in Threads |-> 0]
    /\ rp_built = [t \in Threads |-> 0]
    /\ next_pass = 0
    /\ rp_op = [name |-> "none", info |-> 0, pass |-> 0]
    /\ built_for = [o \in Passes |-> 0]
    /\ resolved = [i \in BeginInfos |-> {}]
    /\ overlapped = FALSE
    /\ collided = FALSE

\* The threads that are in the middle of a lookup.
InProgress == { t \in Threads : rp_pc[t] # "idle" }

\* A thread starts to look a begin-info up (pipeline creation, the start of
\* a render pass) and asks for the shared lock.
begin_lookup(t, info) ==
    /\ rp_pc[t] = "idle"
    /\ next_pass + Cardinality(InProgress) < MaxRenderPasses
    /\ rp_pc' = [rp_pc EXCEPT ![t] = "lock_shared"]
    /\ rp_req' = [rp_req EXCEPT ![t] = info]
    /\ overlapped' = (overlapped \/ InProgress # {})
    /\ UNCHANGED <<_render_pass_lookup, readers, writers, rp_built, next_pass,
                   rp_op, built_for, resolved, collided, rp_frame>>

\* std::shared_lock lock(_mutex)
lock_shared(t) ==
    /\ rp_pc[t] = "lock_shared"
    /\ CanLockShared(readers, writers)
    /\ readers' = readers \cup {t}
    /\ rp_pc' = [rp_pc EXCEPT ![t] = "find"]
    /\ UNCHANGED <<_render_pass_lookup, writers, rp_req, rp_built, next_pass,
                   rp_op, built_for, resolved, overlapped, collided, rp_frame>>

\* What the thread finds under the shared lock: a cached entry of its hash
\* that is structurally equal to its begin-info.
IsHit(map, info) ==
    LET entry == Find(map, Hash(info))
    IN  entry # NoEntry /\ StructurallyEqual(entry.info, info)

\* The read path, on a hit: the cached object is reused; the shared lock is
\* released.
find_hit(t) ==
    /\ rp_pc[t] = "find"
    /\ IsHit(_render_pass_lookup, rp_req[t])
    /\ LET pass == Find(_render_pass_lookup, Hash(rp_req[t])).pass
       IN  /\ rp_op' = [name |-> "hit", info |-> rp_req[t], pass |-> pass]
           /\ resolved' = [resolved EXCEPT ![rp_req[t]] = @ \cup {pass}]
    /\ readers' = readers \ {t}
    /\ rp_pc' = [rp_pc EXCEPT ![t] = "idle"]
    /\ rp_req' = [rp_req EXCEPT ![t] = 0]
    /\ UNCHANGED <<_render_pass_lookup, writers, rp_built, next_pass,
                   built_for, overlapped, collided, rp_frame>>

\* The read path, on a miss: the shared lock is released and the native
\* object is built outside the lock.
find_miss(t) ==
    /\ rp_pc[t] = "find"
    /\ ~IsHit(_render_pass_lookup, rp_req[t])
    /\ LET pass == next_pass + 1
       IN  /\ next_pass' = pass
           /\ rp_built' = [rp_built EXCEPT ![t] = pass]
           /\ built_for' = [built_for EXCEPT ![pass] = rp_req[t]]
    /\ collided' = (collided
                     \/ Find(_render_pass_lookup, Hash(rp_req[t])) # NoEntry)
    /\ readers' = readers \ {t}
    /\ rp_pc' = [rp_pc EXCEPT ![t] = "lock_exclusive"]
    /\ UNCHANGED <<_render_pass_lookup, writers, rp_req, rp_op, resolved,
                   overlapped, rp_frame>>

\* std::unique_lock lock(_mutex)
lock_exclusive(t) ==
    /\ rp_pc[t] = "lock_exclusive"
    /\ CanLockExclusive(readers, writers)
    /\ writers' = writers \cup {t}
    /\ rp_pc' = [rp_pc EXCEPT ![t] = "insert"]
    /\ UNCHANGED <<_render_pass_lookup, readers, rp_req, rp_built, next_pass,
                   rp_op, built_for, resolved, overlapped, collided, rp_frame>>

\* The write path: the new entry is inserted under the exclusive lock, the
\* lock is released and the lookup returns the object it built.
insert_entry(t, replace) ==
    /\ rp_pc[t] = "insert"
    /\ _render_pass_lookup' =
          Insert(_render_pass_lookup, Hash(rp_req[t]),
                 [info |-> rp_req[t], pass |-> rp_built[t]], replace)
    /\ writers' = writers \ {t}
    /\ rp_op' = [name |-> "miss", info |-> rp_req[t], pass |-> rp_built[t]]
    /\ resolved' = [resolved EXCEPT ![rp_req[t]] = @ \cup {rp_built[t]}]
    /\ rp_pc' = [rp_pc EXCEPT ![t] = "idle"]
    /\ rp_req' = [rp_req EXCEPT ![t] = 0]
    /\ rp_built' = [rp_built EXCEPT ![t] = 0]
    /\ UNCHANGED <<readers, next_pass, built_for, overlapped, collided,
                   rp_frame>>

RpNext ==
    \/ \E t \in Threads, i \in BeginInfos : begin_lookup(t, i)
    \/ \E t \in Threads : lock_shared(t)
    \/ \E t \in Threads : find_hit(t)
    \/ \E t \in Threads : find_miss(t)
    \/ \E t \in Threads : lock_exclusive(t)
    \/ \E t \in Threads, replace \in BOOLEAN : insert_entry(t, replace)

(***************************************************************************)
(* ini_file: the text of a value.  save() writes the elements of a key as  *)
(* one line, doubling every comma of an element and separating elements    *)
(* with a comma; load() splits the text after "=" back into elements.  A   *)
(* string is a sequence of one-character strings; indices into a string    *)
(* are those of the code (from 0), so the character at index i is s[i+1].  *)
(***************************************************************************)

\* The characters elements are made of.
Chars == {",", "a"}

\* The characters trim() removes from both ends (" \t").
Whitespace == {" ", "\t"}

StringsUpTo(n) == UNION { [1..k -> Chars] : k \in 0..n }

\* The values of a key: up to MaxElements elements of up to MaxElementLen
\* characters.
IniValues == UNION { [1..k -> StringsUpTo(MaxElementLen)] : k \in 0..MaxElements }

\* value.append(c == ',' ? 2 : 1, c), for every character of the element.
RECURSIVE EscapeElement(_)
EscapeElement(element) ==
    IF element = <<>> THEN <<>>
    ELSE LET c == Head(element)
         IN  (IF c = "," THEN <<c, c>> ELSE <<c>>) \o EscapeElement(Tail(element))

\* The loop over the elements: each one escaped and followed by a comma.
RECURSIVE JoinElements(_)
JoinElements(elements) ==
    IF elements = <<>> THEN <<>>
    ELSE EscapeElement(Head(elements)) \o <<",">> \o JoinElements(Tail(elements))

\* std::string::pop_back()
PopBack(str) == SubSeq(str, 1, Len(str) - 1)

\* save(): the text written after "key=": nothing when there are no elements,
\* else the joined elements without the last comma.
SaveValue(elements) ==
    IF elements = <<>> THEN <<>> ELSE PopBack(JoinElements(elements))

\* trim(str): the string without the whitespace at its two ends.
RECURSIVE Trim(_)
Trim(str) ==
    IF str = <<>> THEN str
    ELSE IF Head(str) \in Whitespace THEN Trim(Tail(str))
    ELSE IF str[Len(str)] \in Whitespace THEN Trim(PopBack(str))
    ELSE str

\* std::min(value.find_first_of(',', offset), len)
RECURSIVE FindComma(_, _)
FindComma(value, offset) ==
    IF offset >= Len(value) THEN Len(value)
    ELSE IF value[offset + 1] = "," THEN offset
    ELSE FindComma(value, offset + 1)

\* "while (base < found) { c = value[base++]; element += c;
\*      if (c == ',' && base < found && value[base] == ',') base++; }"
RECURSIVE CopyElement(_, _, _, _)
CopyElement(value, base, found, element) ==
    IF base >= found THEN element
    ELSE LET c == value[base + 1]
         IN  IF c = "," /\ base + 1 < found /\ value[base + 2] = ","
             THEN CopyElement(value, base + 2, found, Append(element, c))
             ELSE CopyElement(value, base + 1, found, Append(element, c))

\* "for (size_t offset = 0, base = 0, len = value.size(); offset <= len;)":
\* the elements appended to those the key already has.
RECURSIVE SplitValue(_, _, _, _)
SplitValue(value, offset, base, elements) ==
    IF offset > Len(value) THEN elements
    ELSE LET found == FindComma(value, offset)
         IN  IF found + 1 < Len(value) /\ value[found + 2] = ","
             THEN SplitValue(value, found + 2, base, elements)
             ELSE SplitValue(value, found + 1, found + 1,
                             Append(elements,
                                    CopyElement(value, base, found, <<>>)))

\* load(): the elements of a key read from the text after "=".  An empty
\* value inserts the key with no elements (an existing key is kept).
LoadValue(existing, text) ==
    LET value == Trim(text)
    IN  IF value = <<>> THEN existing ELSE SplitValue(value, 0, 0, existing)

EscInit ==
    /\ esc_elements = <<>>
    /\ esc_value = <<>>
    /\ esc_loaded = <<>>
    /\ esc_pc = "stored"

\* The elements a caller stored under the key, drawn from the bounded set.
EscInputs ==
    /\ esc_elements \in IniValues
    /\ esc_value = <<>>
    /\ esc_loaded = <<>>
    /\ esc_pc = "stored"

\* save(): the key's line of the file.
save_value ==
    /\ esc_pc = "stored"
    /\ esc_value' = SaveValue(esc_elements)
    /\ esc_pc' = "saved"
    /\ UNCHANGED <<esc_elements, esc_loaded, esc_frame>>

\* load() of the written file by a new ini_file: _sections starts empty.
load_value ==
    /\ esc_pc = "saved"
    /\ esc_loaded' = LoadValue(<<>>, esc_value)
    /\ esc_pc' = "loaded"
    /\ UNCHANGED <<esc_elements, esc_value, esc_frame>>

EscNext ==
    \/ save_value
    \/ load_value

(***************************************************************************)
(* ini_file: one file of the cache (s_ini_cache) and the file on disk at   *)
(* its path.  The file holds one key in the unnamed section, so its text   *)
(* is <<>> (an empty file) or the value of that key; other processes write *)
(* and delete the file too.  A time stamp is the clock's value when the    *)
(* file was written; the clock may stand still between two writes.         *)
(***************************************************************************)

\* The values callers store under the key.
ConfigValues == { << <<"a">> >>, << <<",">>, <<"a">> >> }

\* The texts other processes write to the file.
ExternalTexts == { <<>> } \cup { <<SaveValue(v)>> : v \in ConfigValues }

Times == 1..MaxTime

NoFile == [exists |-> FALSE, text |-> <<>>, mtime |-> 0]

\* save(): the text built from _sections, a line per key.
SaveText(sections) == [k \in DOMAIN sections |-> SaveValue(sections[k])]

\* load(): _sections read from the text, a key per line.
LoadText(text) == [k \in DOMAIN text |-> LoadValue(<<>>, text[k])]

\* A newly constructed ini_file, before the load() of its constructor.
NewIniFile == [sections |-> <<>>, modified |-> FALSE, modified_at |-> 0]

\* The cached ini_file.
CachedFile ==
    [sections |-> _sections, modified |-> _modified, modified_at |-> _modified_at]

\* "if (!ec && _modified_at >= modified_at) return;"
SkipLoad(file, d) == d.exists /\ file.modified_at >= d.mtime

\* ini_file::load(): the ini_file after the call.
Load(file, d, can_open) ==
    IF SkipLoad(file, d) THEN file
    ELSE IF ~d.exists \/ ~can_open
    THEN [file EXCEPT !.sections = <<>>]
    ELSE [sections |-> LoadText(d.text), modified |-> FALSE,
          modified_at |-> d.mtime]

\* The test of save() with the comparison the other way round.
DiskIsNewer_Reversed(file, d) == d.exists /\ d.mtime < file.modified_at

\* "if (!ec && modified_at > _modified_at) return false;"
DiskIsNewer(file, d) == d.exists /\ d.mtime > file.modified_at

\* The flag left set when save() fails.
ModifiedAfterSave_KeptOnFailure(failed) == failed

\* "_modified = false;" before the checks of save(): the flag is reset even
\* when save() fails.
ModifiedAfterSave(failed) == FALSE

\* ini_file::save() on a modified file: the outcome [file, disk, ret,
\* asserted], asserted being the assertion on the size of the written file.
SaveModified(file, d, time, can_open) ==
    IF DiskIsNewer(file, d) \/ ~can_open
    THEN [file |-> [file EXCEPT !.modified = ModifiedAfterSave(TRUE)],
          disk |-> d, ret |-> FALSE, asserted |-> TRUE]
    ELSE [file |-> [file EXCEPT !.modified = ModifiedAfterSave(FALSE),
                                !.modified_at = time],
          disk |-> [exists |-> TRUE, text |-> SaveText(file.sections),
                    mtime |-> time],
          ret |-> TRUE,
          asserted |-> SaveText(file.sections) # <<>>]

\* ini_file::save(): "if (!_modified) return true;", else as above.
Save(file, d, time, can_open) ==
    IF ~file.modified
    THEN [file |-> file, disk |-> d, ret |-> TRUE, asserted |-> TRUE]
    ELSE SaveModified(file, d, time, can_open)

IniInit ==
    /\ cached = FALSE
    /\ _sections = <<>>
    /\ _modified = FALSE
    /\ _modified_at = 0
    /\ disk = NoFile
    /\ now = 1
    /\ ini_status = "running"
    /\ ini_op = [name |-> "none", ret |-> TRUE]
    /\ unsaved = FALSE

\* The cached ini_file becomes file.
StoreFile(file) ==
    /\ _sections' = file.sections
    /\ _modified' = file.modified
    /\ _modified_at' = file.modified_at

\* Time passes.
tick ==
    /\ ini_status = "running"
    /\ now < MaxTime
    /\ now' = now + 1
    /\ ini_op' = [name |-> "tick", ret |-> TRUE]
    /\ UNCHANGED <<cached, _sections, _modified, _modified_at, disk,
                   ini_status, unsaved, ini_frame>>

\* Another process writes the file.
external_write(text) ==
    /\ ini_status = "running"
    /\ disk' = [exists |-> TRUE, text |-> text, mtime |-> now]
    /\ ini_op' = [name |-> "external", ret |-> TRUE]
    /\ UNCHANGED <<cached, _sections, _modified, _modified_at, now,
                   ini_status, unsaved, ini_frame>>

\* Another process deletes the file.
external_delete ==
    /\ ini_status = "running"
    /\ disk.exists
    /\ disk' = NoFile
    /\ ini_op' = [name |-> "external", ret |-> TRUE]
    /\ UNCHANGED <<cached, _sections, _modified, _modified_at, now,
                   ini_status, unsaved, ini_frame>>

\* The reload of load_cache() with the test of the flag left out.
ReloadWanted_IgnoresModified(inserted, modified) == ~inserted

\* "if (!it.second && !file.second._modified) file.second.load();"
ReloadWanted(inserted, modified) == ~inserted /\ ~modified

\* ini_file::load_cache(path): try_emplace constructs the ini_file (whose
\* constructor loads it) when the cache has none for the path; a cached file
\* is loaded again unless it is modified.
load_cache ==
    /\ ini_status = "running"
    /\ \E can_open \in BOOLEAN :
          LET inserted == ~cached
              before == IF inserted THEN NewIniFile ELSE CachedFile
              loads == inserted \/ ReloadWanted(inserted, before.modified)
              after == IF loads THEN Load(before, disk, can_open) ELSE before
          IN /\ StoreFile(after)
             /\ unsaved' = IF loads /\ ~SkipLoad(before, disk)
                            THEN FALSE ELSE unsaved
    /\ cached' = TRUE
    /\ ini_op' = [name |-> "load_cache", ret |-> TRUE]
    /\ UNCHANGED <<disk, now, ini_status, ini_frame>>

\* ini_file::set(section, key, value) on the file load_cache() returned: the
\* value is stored and the file marked as modified; stamp tells whether the
\* time of the modification is recorded in _modified_at as well.
set_value(value, stamp) ==
    /\ ini_status = "running"
    /\ cached
    /\ _sections' = <<value>>
    /\ _modified' = TRUE
    /\ _modified_at' = IF stamp THEN now ELSE _modified_at
    /\ unsaved' = TRUE
    /\ ini_op' = [name |-> "set", ret |-> TRUE]
    /\ UNCHANGED <<cached, disk, now, ini_status, ini_frame>>

\* A call of save() on the cached file, made by the operation name.
CallSave(name, can_open) ==
    LET out == Save(CachedFile, disk, now, can_open)
    IN /\ StoreFile(out.file)
       /\ disk' = out.disk
       /\ ini_status' = IF out.asserted THEN "running" ELSE "assert_failed"
       /\ unsaved' = IF _modified /\ out.ret THEN FALSE ELSE unsaved
       /\ ini_op' = [name |-> name, ret |-> out.ret]
       /\ UNCHANGED <<cached, now, ini_frame>>

\* An operation that leaves the file and the disk alone and returns ret.
NoSave(name, ret) ==
    /\ ini_op' = [name |-> name, ret |-> ret]
    /\ UNCHANGED <<cached, _sections, _modified, _modified_at, disk, now,
                   ini_status, unsaved, ini_frame>>

\* ini_file::save() on the file load_cache() returned.
save ==
    /\ ini_status = "running"
    /\ cached
    /\ \E can_open \in BOOLEAN : CallSave("save", can_open)

\* "if (file.second._modified && (now - file.second._modified_at) >
\* std::chrono::seconds(1))"
FlushDue(file, time) == file.modified /\ time - file.modified_at > 1

\* ini_file::flush_cache(): every cached file that was modified more than a
\* second ago is saved.
flush_cache ==
    /\ ini_status = "running"
    /\ IF cached /\ FlushDue(CachedFile, now)
       THEN \E can_open \in BOOLEAN : CallSave("flush_cache", can_open)
       ELSE NoSave("flush_cache", TRUE)

\* ini_file::flush_cache(path): "it != s_ini_cache.end() &&
\* it->second.save()".
flush_cache_path ==
    /\ ini_status = "running"
    /\ IF cached
       THEN \E can_open \in BOOLEAN : CallSave("flush_cache_path", can_open)
       ELSE NoSave("flush_cache_path", FALSE)

IniNext ==
    \/ tick
    \/ \E text \in ExternalTexts : external_write(text)
    \/ external_delete
    \/ load_cache
    \/ \E value \in ConfigValues, stamp \in BOOLEAN : set_value(value, stamp)
    \/ save
    \/ flush_cache
    \/ flush_cache_path

(***************************************************************************)
(* Claims about the private-data table (checked under SpecPrivateData).    *)
(***************************************************************************)

\* The entries of the table that are stored under guid, compared as values.
EntriesOf(guid) ==
    { i \in 1..Len(_private_data) : _private_data[i].guid = guid }

\* C1: private-data round trip.  Once set_private_data(g, v) with v # 0 was
\* the last set call on g, get_private_data(g) yields v, whatever set calls
\* on other GUIDs (with any value, 0 included) came before or in between:
\* both the value a get call returned and the value a get call would return
\* in the current state are the value last written.
C1_RoundTrip ==
    /\ \A g \in GUIDS :
          written[g] # 0 => GetPrivateData(_private_data, g) = written[g]
    /\ (pd_op.name = "get" /\ written[pd_op.guid] # 0)
          => pd_op.ret = written[pd_op.guid]

\* C1 witness: a get returned a non-zero value for the guid of the first entry
\* while a later entry exists, so other GUIDs were set after g's entry was
\* created and before the get.
C1_Witness ==
    /\ pd_op.name = "get"
    /\ pd_op.ret # 0
    /\ Len(_private_data) >= 2
    /\ _private_data[1].guid = pd_op.guid
    /\ \E i \in 2..Len(_private_data) : _private_data[i].guid # pd_op.guid

\* C2: set_private_data(g, 0) removes the entry of g.  A guid whose last set
\* value is 0 (never set, or set and removed) has no entry and reads as 0,
\* a get call on it returned 0, and set_private_data(g, 0) on a guid with no
\* entry leaves the table unchanged.
C2_ZeroRemoves ==
    /\ [](\A g \in GUIDS :
            written[g] = 0 =>
                /\ EntriesOf(g) = {}
                /\ GetPrivateData(_private_data, g) = 0)
    /\ []((pd_op.name = "get" /\ written[pd_op.guid] = 0) => pd_op.ret = 0)
    /\ [][ (/\ pd_op'.name = "set"
            /\ pd_op'.data = 0
            /\ EntriesOf(pd_op'.guid) = {})
           => _private_data' = _private_data ]_vars

\* C2 witness: a get returned 0 for a guid that had been set to a non-zero
\* value and then removed, while entries of other guids remain.
C2_Witness ==
    /\ pd_op.name = "get"
    /\ pd_op.ret = 0
    /\ pd_op.guid \in ever_set
    /\ written[pd_op.guid] = 0
    /\ Len(_private_data) >= 1

\* C3: the table must be empty at destruction.  The destructor's assertion
\* holds exactly when every guid that was set to a non-zero value has since
\* been set to 0, and fails when at least one entry remains.
C3_EmptyAtDestruction ==
    pd_op.name = "destroy" =>
        /\ pd_status \in {"destroyed", "assert_failed"}
        /\ (pd_status = "destroyed") <=> (\A g \in ever_set : written[g] = 0)
        /\ (pd_status = "assert_failed") <=> (Len(_private_data) >= 1)

\* C3 witness: an object destroyed with a remaining entry failed the assertion.
C3_Witness ==
    /\ pd_op.name = "destroy"
    /\ pd_status = "assert_failed"
    /\ \E g \in ever_set : written[g] # 0

\* The entries of the table whose guid is g, in the order of the table.
EntriesOfGuid(table, g) ==
    LET HasGuid(e) == e.guid = g
    IN  SelectSeq(table, HasGuid)

\* C21: shape of the private-data table.  After any sequence of
\* set_private_data calls the table holds at most one entry per GUID and no
\* entry whose value is 0, and a set_private_data call on a GUID g leaves
\* the entries of every other GUID as they were.
C21_TableShape ==
    /\ [](\A g \in GUIDS : Len(EntriesOfGuid(_private_data, g)) <= 1)
    /\ [](\A i \in DOMAIN _private_data : _private_data[i].data # 0)
    /\ [][pd_op'.name = "set" =>
             \A g \in GUIDS \ {pd_op'.guid} :
                EntriesOfGuid(_private_data', g)
                    = EntriesOfGuid(_private_data, g)]_vars

\* C21 witness: a set call with the value 0 removed the entry of a GUID that
\* had one, and the table still holds one entry, with a value other than 0,
\* for every other GUID.
C21_Witness ==
    /\ pd_op.name = "set"
    /\ pd_op.data = 0
    /\ pd_op.guid \in ever_set
    /\ EntriesOfGuid(_private_data, pd_op.guid) = <<>>
    /\ Len(_private_data) = NumGuids - 1
    /\ \A g \in GUIDS \ {pd_op.guid} :
          /\ Len(EntriesOfGuid(_private_data, g)) = 1
          /\ EntriesOfGuid(_private_data, g)[1].data = written[g]

(***************************************************************************)
(* Claims about the object identity table (checked under SpecIdentity).    *)
(***************************************************************************)

\* The records that are allocated and not freed.
LiveRecords == { r \in Records : heap[r] = "live" }

\* The records that a tag of some native object holds.
ReferencedRecords == { r \in Records : \E k \in Keys : tag[k] = r }

OpKey == <<id_op.type, id_op.handle>>

\* C4: object identity round trip.  After register(type, handle, metadata) on
\* a non-null handle, the tag of (type, handle) is the metadata registered
\* last for that pair and a lookup returns exactly it without failing an
\* assertion, until unregister(type, handle), whatever register/unregister
\* calls were made on other pairs in between.
C4_IdentityRoundTrip ==
    /\ \A k \in Keys :
          registered[k] # 0 => VkGetPrivateData(tag, k[1], k[2]) = registered[k]
    /\ (/\ id_op.name = "lookup"
        /\ id_op.handle # VK_NULL_HANDLE
        /\ registered[OpKey] # 0)
          => (id_op.ret = registered[OpKey] /\ id_status = "running")

\* C4 witness: a lookup returned the record registered for its pair although
\* a record allocated later, for another pair, has been registered and
\* unregistered in between.
C4_Witness ==
    /\ id_op.name = "lookup"
    /\ id_op.ret \in Records
    /\ reg_key[id_op.ret] = OpKey
    /\ \E r \in Records :
          /\ r > id_op.ret
          /\ reg_key[r] \notin {NoKey, OpKey}
          /\ heap[r] = "freed"

\* C5: a lookup on a handle that is null, was never registered, or was
\* registered and then unregistered fails an assertion and returns no
\* metadata pointer; after an unregister the tag reads as 0.
C5_LookupPrecondition ==
    /\ (/\ id_op.name = "lookup"
        /\ (id_op.handle = VK_NULL_HANDLE \/ registered[OpKey] = 0))
          => (id_status = "assert_failed" /\ id_op.ret = 0)
    /\ (id_op.name = "lookup" /\ id_status = "running") => id_op.ret # 0
    /\ \A k \in Keys :
          registered[k] = 0 => VkGetPrivateData(tag, k[1], k[2]) = 0

\* C5 witness: a lookup failed its assertion on a non-null handle whose record
\* had been registered and then freed by unregister.
C5_Witness ==
    /\ id_op.name = "lookup"
    /\ id_status = "assert_failed"
    /\ id_op.handle # VK_NULL_HANDLE
    /\ \E r \in Records : reg_key[r] = OpKey /\ freed_by[r] = <<OpKey>>

\* No record is deleted twice, and a record is deleted only by the typed
\* unregister of the pair it was allocated for.
FreedOnceByOwnKey ==
    \A r \in Records :
        /\ Len(freed_by[r]) <= 1
        /\ (heap[r] = "freed") <=> (Len(freed_by[r]) = 1)
        /\ freed_by[r] # <<>> => freed_by[r][1] = reg_key[r]

\* C6 as claimed, granted that register is only called on handles that carry
\* no tag: after any sequence of register and unregister calls the live
\* records are exactly the records referenced by tagged handles (none
\* leaked), and each record is freed at most once, by the unregister of its
\* own pair.
C6_Original_NoLeak ==
    overwritten = {} =>
        /\ FreedOnceByOwnKey
        /\ LiveRecords = ReferencedRecords

\* C6 as amended: each record allocated by the typed register_object is freed
\* at most once, and only by the typed unregister_object of its own pair,
\* which clears the tag; no tag references a freed record; the live records
\* that no tag references (the leaked ones) are exactly those whose tag was
\* overwritten by a register call on an already tagged handle or cleared by
\* the untyped unregister_object, so without such calls live equals
\* referenced.
C6_MetadataLifecycle ==
    /\ FreedOnceByOwnKey
    /\ ReferencedRecords \subseteq LiveRecords
    /\ LiveRecords \ ReferencedRecords = overwritten \cup cleared
    /\ (overwritten \cup cleared = {}) => LiveRecords = ReferencedRecords

\* C6 witness: one record was freed by the unregister of its pair while
\* another is still live and referenced by its tag, and nothing has leaked.
C6_Witness ==
    /\ overwritten \cup cleared = {}
    /\ \E r \in Records : heap[r] = "freed" /\ freed_by[r] = <<reg_key[r]>>
    /\ \E r \in Records : heap[r] = "live" /\ tag[reg_key[r]] = r

\* C7: unregister(type, handle) with a null handle is a no-op: it frees
\* nothing and leaves every tag and every metadata record unchanged.
C7_UnregisterNullNoOp ==
    [][ (id_op'.name = "unregister" /\ id_op'.handle = VK_NULL_HANDLE)
          => UNCHANGED <<tag, heap, next_alloc, id_status, registered,
                         freed_by, overwritten, cleared>> ]_vars

\* C7 witness: unregister was called with a null handle while a live record
\* was tagged.
C7_Witness ==
    /\ id_op.name = "unregister"
    /\ id_op.handle = VK_NULL_HANDLE
    /\ id_status = "running"
    /\ ReferencedRecords # {}

(***************************************************************************)
(* Claims about the descriptor pools (checked under SpecDescriptors).      *)
(***************************************************************************)

\* C8: transient descriptor sets expire on schedule.  With 4 transient pools,
\* a rotation invalidates every set previously allocated from the pool that
\* becomes current, so a transient set allocated right after rotation K is
\* not valid once 4 more rotations have happened.
C8_TransientExpiry ==
    /\ \A d \in SetIds :
          (sets[d].kind = "transient" /\ sets[d].valid) => sets[d].age < 4
    /\ desc_op.name = "advance" =>
          \A d \in SetIds :
              (sets[d].kind = "transient" /\ sets[d].pool = _transient_index)
                  => ~sets[d].valid

\* C8 witness: after a rotation, one transient set has lived through 4
\* rotations and is invalid while a younger one, 3 rotations old, is valid.
C8_Witness ==
    /\ desc_op.name = "advance"
    /\ \E d \in SetIds :
          sets[d].kind = "transient" /\ sets[d].age >= 4 /\ ~sets[d].valid
    /\ \E d \in SetIds :
          sets[d].kind = "transient" /\ sets[d].age = 3 /\ sets[d].valid

\* C9: the transient pool cursor starts at 0, always indexes one of the 4
\* pools (0..3), moves exactly one step forward round the ring on every
\* advance_transient_descriptor_pool() and is changed by no other operation.
C9_CursorRotation ==
    /\ _transient_index = 0
    /\ [](_transient_index \in 0..3)
    /\ [][ /\ desc_op'.name = "advance"
                 => _transient_index' = (_transient_index + 1) % 4
           /\ desc_op'.name # "advance"
                 => _transient_index' = _transient_index ]_vars

\* C9 witness: a rotation brought the cursor back to pool 0 after a full trip
\* round the ring (a set allocated before is 4 rotations old).
C9_Witness ==
    /\ desc_op.name = "advance"
    /\ _transient_index = 0
    /\ \E d \in SetIds : sets[d].kind # "none" /\ sets[d].age >= 4

\* C10: a set allocated from the persistent pool stays valid across any
\* number of rotations; it becomes invalid only in a free_descriptor_sets
\* call that names it.
C10_PersistentSetsSurvive ==
    [][ \A d \in SetIds :
          (sets[d].kind = "persistent" /\ sets[d].valid) =>
              /\ sets'[d].kind = "persistent"
              /\ \/ sets'[d].valid
                 \/ desc_op'.name = "free" /\ d \in desc_op'.sets ]_vars

\* C10 witness: after a rotation a persistent set that has lived through 4
\* rotations is still valid.
C10_Witness ==
    /\ desc_op.name = "advance"
    /\ \E d \in SetIds :
          sets[d].kind = "persistent" /\ sets[d].valid /\ sets[d].age >= 4

(***************************************************************************)
(* Claims about the resource / view registry (checked under SpecResources).*)
(***************************************************************************)

MapStates == {"Unmapped", "MappedRead", "MappedWrite"}

\* C11: the mapping state machine.  A resource is Unmapped, MappedRead or
\* MappedWrite; a map call on a resource that is already mapped fails and
\* leaves every resource as it was; a Mapped state is left only by an unmap
\* call, for Unmapped, so no step leads from one Mapped state to another.
C11_MappingStateMachine ==
    /\ [](\A h \in ResHandles : resources[h].map \in MapStates)
    /\ [][ \A h \in ResHandles :
             resources[h].map # "Unmapped" =>
                /\ resources'[h].map \in {resources[h].map, "Unmapped"}
                /\ resources'[h].map = "Unmapped" =>
                      (res_op'.name = "unmap" /\ res_op'.handle = h)
                /\ (res_op'.name = "map" /\ res_op'.handle = h) =>
                      (~res_op'.ok /\ resources' = resources) ]_vars

\* C11 witness: a map call failed on a resource that is mapped for write,
\* while another resource exists.
C11_Witness ==
    /\ res_op.name = "map"
    /\ ~res_op.ok
    /\ res_status = "running"
    /\ resources[res_op.handle].map = "MappedWrite"
    /\ \E h \in ResHandles :
          h # res_op.handle /\ resources[h].state = "live"

\* C12: destroy_resource on a resource with no outstanding view and no
\* mapping succeeds: the resource is gone, its tag is cleared and a later
\* lookup of the handle fails the "is registered" assertion.  On a resource
\* that is mapped, destroy_resource fails an assertion and destroys nothing.
C12_DestroyResource ==
    /\ [][ \A h \in ResHandles :
             (/\ res_op'.name = "destroy_resource"
              /\ res_op'.handle = h
              /\ resources[h].state = "live") =>
                /\ (/\ resources[h].map = "Unmapped"
                    /\ OutstandingViews(views, h) = {}) =>
                      /\ res_status' = "running"
                      /\ res_op'.ok
                      /\ resources'[h].state = "destroyed"
                      /\ \A t \in Types : ~IsRegistered(res_tag', t, h)
                /\ resources[h].map # "Unmapped" =>
                      /\ res_status' = "assert_failed"
                      /\ resources' = resources
                      /\ res_tag' = res_tag ]_vars
    /\ [](\A h \in ResHandles :
            (/\ res_op.name = "get_resource_desc"
             /\ res_op.handle = h
             /\ resources[h].state = "destroyed") =>
                (res_status = "assert_failed" /\ ~res_op.ok))

\* C12 witness: a lookup failed its assertion on the handle of a destroyed
\* resource while another resource is still mapped.
C12_Witness ==
    /\ res_op.name = "get_resource_desc"
    /\ res_status = "assert_failed"
    /\ resources[res_op.handle].state = "destroyed"
    /\ \E h \in ResHandles : resources[h].map # "Unmapped"

NeverAliased ==
    \A i \in BeginInfos : \A o \in resolved[i] : built_for[o] = i

\* All the lookups of one begin-info returned the same native object.
EqualReuseSameObject ==
    \A i \in BeginInfos : Cardinality(resolved[i]) <= 1

C16_ReaderWriterExclusion ==
    /\ writers # {} => (readers = {} /\ Cardinality(writers) = 1)
    /\ readers = { t \in Threads : rp_pc[t] = "find" }
    /\ writers = { t \in Threads : rp_pc[t] = "insert" }
    /\ \A t \in Threads :
          (rp_pc[t] = "lock_shared" /\ writers = {}) => ENABLED lock_shared(t)

\* C16 witness: a thread is inserting while another thread waits for the
\* lock.
C16_Witness ==
    /\ writers # {}
    /\ \E t \in Threads : rp_pc[t] \in {"lock_shared", "lock_exclusive"}

(***************************************************************************)
(* Claims about the text of an INI value (checked under SpecIniEscape).    *)
(***************************************************************************)

\* C17: INI value escaping round trip.  For every list of elements stored
\* under a key, load() of the text save() wrote yields the same list of
\* elements, empty elements and elements that begin or end with a comma
\* included.
C17_EscapeRoundTrip ==
    esc_pc = "loaded" => esc_loaded = esc_elements

(***************************************************************************)
(* Claims about ini_file and its cache (checked under SpecIniFile).        *)
(***************************************************************************)

\* The operations that call save() on the cached file.
SavingOps == {"save", "flush_cache", "flush_cache_path"}

\* The file on disk is newer than the cached file recorded.
NewerOnDisk == disk.exists /\ disk.mtime > _modified_at

\* C18 as stated: whenever the file exists and its time on disk is later
\* than _modified_at, save() returns false and writes nothing, and whenever
\* the ini_file is not modified, save() returns true and writes nothing.
C18_Original_NewerFileRefused ==
    [][ini_op'.name = "save" =>
          /\ NewerOnDisk => (~ini_op'.ret /\ disk' = disk)
          /\ ~_modified => (ini_op'.ret /\ disk' = disk)]_vars

\* C18: save() of a modified ini_file whose file exists with a time on disk
\* later than _modified_at returns false and writes nothing; save() of an
\* ini_file that is not modified returns true and writes nothing, whatever
\* is on disk; no operation of the cache writes over a file that is newer
\* than _modified_at.
C18_SaveRespectsNewerFile ==
    [][/\ ini_op'.name = "save" =>
             /\ (_modified /\ NewerOnDisk) => (~ini_op'.ret /\ disk' = disk)
             /\ ~_modified => (ini_op'.ret /\ disk' = disk)
       /\ (ini_op'.name \in SavingOps /\ NewerOnDisk) => disk' = disk]_vars

\* save() has refused to write a modification over a newer file.
C18_Witness ==
    /\ ini_op = [name |-> "save", ret |-> FALSE]
    /\ NewerOnDisk
    /\ unsaved
    /\ disk.text # SaveText(_sections)

\* C19: after save() returned, with success or with failure, the modified
\* flag is false; save(), flush_cache() and flush_cache(path) on a cached
\* file whose flag is false return true and leave the file on disk and the
\* ini_file as they are.
C19_FlagClearedBySave ==
    /\ [](ini_op.name \in {"save", "flush_cache_path"} /\ cached
            => ~_modified)
    /\ [][(ini_op'.name \in SavingOps /\ cached /\ ~_modified) =>
              /\ ini_op'.ret
              /\ disk' = disk
              /\ CachedFile' = CachedFile]_vars

\* A save() failed, nothing was modified since, and flush_cache() returned
\* true without writing the modification.
C19_Witness ==
    /\ ini_op = [name |-> "flush_cache", ret |-> TRUE]
    /\ cached
    /\ unsaved
    /\ ~_modified
    /\ now - _modified_at > 1

Init == PdInit /\ IdInit /\ DescInit /\ ResInit /\ RpInit /\ EscInit /\ IniInit

Next ==
    \/ PdNext
    \/ IdNext
    \/ DescNext
    \/ ResNext
    \/ RpNext
    \/ EscNext
    \/ IniNext

Spec == Init /\ [][Next]_vars

\* The components share no variable: each is checked with the others at rest.
SpecPrivateData == Init /\ [][PdNext]_vars

SpecIdentity == Init /\ [][IdNext]_vars

SpecDescriptors == Init /\ [][DescNext]_vars

SpecResources == Init /\ [][ResNext]_vars

SpecRenderPassCache == Init /\ [][RpNext]_vars

\* The text of a value, for every value of the bounded set.
InitIniEscape ==
    PdInit /\ IdInit /\ DescInit /\ ResInit /\ RpInit /\ EscInputs /\ IniInit

SpecIniEscape == InitIniEscape /\ [][EscNext]_vars

SpecIniFile == Init /\ [][IniNext]_vars

=============================================================================
